---- MODULE Spec2Model ----
(***************************************************************************)
(* Model of the numeric capability contract of symdiff-rust:               *)
(*   src/src/field.rs            trait Field, impl Field for f32 / f64     *)
(*   src/src/core/arithmetic.rs  traits Zero / One, impls for f32 / f64    *)
(* The built-in types are IEEE-754 binary formats.  A value is the record  *)
(* [s, e, m] of its sign, biased-exponent and trailing-significand fields; *)
(* the operators +, -, *, /, unary - that the traits require through their *)
(* std::ops supertraits are the IEEE-754 operations, computed exactly and  *)
(* rounded to nearest, ties to even.  The two formats are scaled down to   *)
(* ExpBits/ManBits field widths so that every value can be enumerated.     *)
(* All NaN bit patterns are represented by one value (payload and sign of  *)
(* a NaN are not observable through ==).                                   *)
(***************************************************************************)
EXTENDS Integers, FiniteSets, Sequences, TLC

VARIABLES
  ty,      \* the conforming type T the generic code is instantiated with
  pc,      \* position of the single-call harness: "call" or "ret"
  op,      \* the contract operation invoked last
  args,    \* its arguments, a sequence of 0, 1 or 2 values of T
  ret,     \* its return value: <<>> before the return, <<v>> after
  pool,    \* the values obtained so far from the contract (chained calls)
  ncalls,  \* number of chained calls made so far
  cpc,     \* per concurrent caller: "idle", "called" or "returned"
  frame,   \* per call frame: the operation and arguments of the call in it
  call,    \* per concurrent caller: the invocation it made
  result   \* per concurrent caller: the value returned to it

vars == <<ty, pc, op, args, ret, pool, ncalls, cpc, frame, call, result>>

(* ---------------- bounds: field widths of the scaled formats ----------- *)
ExpBits32 == 2
ManBits32 == 1
ExpBits64 == 3
ManBits64 == 2
\* chained calls made from one caller
MaxCalls == 5
\* concurrent callers
NumCallers == 2

(* ---------------- the two built-in conforming types -------------------- *)
Types == {"f32", "f64"}

ExpBits(t) == IF t = "f32" THEN ExpBits32 ELSE ExpBits64

ManBits(t) == IF t = "f32" THEN ManBits32 ELSE ManBits64

RECURSIVE Pow2(_)
Pow2(n) == IF n <= 0 THEN 1 ELSE 2 * Pow2(n - 1)

Bias(t) == Pow2(ExpBits(t) - 1) - 1

EMax(t) == Pow2(ExpBits(t)) - 1

Hidden(t) == Pow2(ManBits(t))

TMin(t) == 1 - Bias(t) - ManBits(t)

NaN(t) == [s |-> 0, e |-> EMax(t), m |-> 1]

Inf(t, sg) == [s |-> sg, e |-> EMax(t), m |-> 0]

FZero(t, sg) == [s |-> sg, e |-> 0, m |-> 0]

Finite(t) == [s : 0..1, e : 0..(EMax(t) - 1), m : 0..(Hidden(t) - 1)]

Values(t) == Finite(t) \cup {Inf(t, 0), Inf(t, 1), NaN(t)}

IsNaN(t, v) == v.e = EMax(t) /\ v.m # 0

IsInf(t, v) == v.e = EMax(t) /\ v.m = 0

IsZero(t, v) == v.e = 0 /\ v.m = 0

IsFinite(t, v) == v.e < EMax(t)

MaxFinite(t, sg) == [s |-> sg, e |-> EMax(t) - 1, m |-> Hidden(t) - 1]

(* significand and exponent of a finite value: |v| = Sig * 2^Ex *)
Sig(t, v) == IF v.e = 0 THEN v.m ELSE Hidden(t) + v.m

Ex(t, v) == (IF v.e = 0 THEN 1 ELSE v.e) - Bias(t) - ManBits(t)

Xor(x, y) == IF x = y THEN 0 ELSE 1

Max(x, y) == IF x >= y THEN x ELSE y

Min(x, y) == IF x <= y THEN x ELSE y

(* floor(log2(num/den)) for num, den > 0 *)
RECURSIVE FloorLog2(_, _)
FloorLog2(num, den) ==
  IF num >= 2 * den THEN FloorLog2(num, 2 * den) + 1
  ELSE IF num < den THEN FloorLog2(2 * num, den) - 1
  ELSE 0

(* num/den rounded to the nearest integer, ties to even *)
RoundNearestEven(num, den) ==
  LET fl == num \div den
      rm == num % den
  IN  IF 2 * rm < den THEN fl
      ELSE IF 2 * rm > den THEN fl + 1
      ELSE IF fl % 2 = 0 THEN fl ELSE fl + 1

(* faulty variant: overflow clamped to the largest finite value (saturating) *)
EncodeSaturating(t, sg, q, tq) ==
  LET q2 == IF q = 2 * Hidden(t) THEN Hidden(t) ELSE q
      t2 == IF q = 2 * Hidden(t) THEN tq + 1 ELSE tq
      ee == t2 - TMin(t) + 1
  IN  IF q2 < Hidden(t) THEN [s |-> sg, e |-> 0, m |-> q2]
      ELSE IF ee >= EMax(t) THEN MaxFinite(t, sg)
      ELSE [s |-> sg, e |-> ee, m |-> q2 - Hidden(t)]

(* the value sg * q * 2^tq, q already rounded to at most ManBits+1 bits *)
Encode(t, sg, q, tq) ==
  LET q2 == IF q = 2 * Hidden(t) THEN Hidden(t) ELSE q
      t2 == IF q = 2 * Hidden(t) THEN tq + 1 ELSE tq
      ee == t2 - TMin(t) + 1
  IN  IF q2 < Hidden(t) THEN [s |-> sg, e |-> 0, m |-> q2]
      ELSE IF ee >= EMax(t) THEN Inf(t, sg)
      ELSE [s |-> sg, e |-> ee, m |-> q2 - Hidden(t)]

(* the exact magnitude (num/den) * 2^ex with sign sg, rounded to format t *)
Round(t, sg, num, den, ex) ==
  IF num = 0 THEN FZero(t, sg)
  ELSE LET lg == FloorLog2(num, den) + ex
           tq == Max(TMin(t), lg - ManBits(t))
           q  == IF ex >= tq
                 THEN RoundNearestEven(num * Pow2(ex - tq), den)
                 ELSE RoundNearestEven(num, den * Pow2(tq - ex))
       IN  Encode(t, sg, q, tq)

(* ---------------- std::ops on the built-in types ----------------------- *)
(* exact results of finite operands: sign sg, magnitude (num/den) * 2^ex *)
ExactSum(t, x, y) ==
  LET e0 == Min(Ex(t, x), Ex(t, y))
      ix == (IF x.s = 1 THEN -1 ELSE 1) * Sig(t, x) * Pow2(Ex(t, x) - e0)
      iy == (IF y.s = 1 THEN -1 ELSE 1) * Sig(t, y) * Pow2(Ex(t, y) - e0)
      sm == ix + iy
  IN  [sg  |-> IF sm < 0 THEN 1 ELSE IF sm > 0 THEN 0
               ELSE IF x.s = y.s THEN x.s ELSE 0,
       num |-> IF sm < 0 THEN -sm ELSE sm, den |-> 1, ex |-> e0]

ExactProduct(t, x, y) ==
  [sg |-> Xor(x.s, y.s), num |-> Sig(t, x) * Sig(t, y), den |-> 1,
   ex |-> Ex(t, x) + Ex(t, y)]

ExactQuotient(t, x, y) ==
  [sg |-> Xor(x.s, y.s), num |-> Sig(t, x), den |-> Sig(t, y),
   ex |-> Ex(t, x) - Ex(t, y)]

RoundExact(t, r) == Round(t, r.sg, r.num, r.den, r.ex)

Add(t, x, y) ==
  IF IsNaN(t, x) \/ IsNaN(t, y) THEN NaN(t)
  ELSE IF IsInf(t, x) /\ IsInf(t, y) THEN (IF x.s = y.s THEN x ELSE NaN(t))
  ELSE IF IsInf(t, x) THEN x
  ELSE IF IsInf(t, y) THEN y
  ELSE RoundExact(t, ExactSum(t, x, y))

(* faulty variant: negation computed as 0 - x, which leaves +0 as +0 *)
NegAsZeroMinus(t, x) == Add(t, FZero(t, 0), [x EXCEPT !.s = 1 - x.s])

Neg(t, x) == IF IsNaN(t, x) THEN NaN(t) ELSE [x EXCEPT !.s = 1 - x.s]

(* faulty variant: operands of the subtraction swapped *)
SubSwapped(t, x, y) == Add(t, y, [x EXCEPT !.s = 1 - x.s])

Sub(t, x, y) == Add(t, x, Neg(t, y))

Mul(t, x, y) ==
  IF IsNaN(t, x) \/ IsNaN(t, y) THEN NaN(t)
  ELSE IF (IsInf(t, x) /\ IsZero(t, y)) \/ (IsZero(t, x) /\ IsInf(t, y)) THEN NaN(t)
  ELSE IF IsInf(t, x) \/ IsInf(t, y) THEN Inf(t, Xor(x.s, y.s))
  ELSE RoundExact(t, ExactProduct(t, x, y))

(* faulty variant: every division by zero treated as invalid *)
DivByZeroIsNaN(t, x, y) ==
  IF IsNaN(t, x) \/ IsNaN(t, y) THEN NaN(t)
  ELSE IF (IsInf(t, x) /\ IsInf(t, y)) \/ IsZero(t, y) THEN NaN(t)
  ELSE IF IsInf(t, x) THEN Inf(t, Xor(x.s, y.s))
  ELSE IF IsInf(t, y) THEN FZero(t, Xor(x.s, y.s))
  ELSE RoundExact(t, ExactQuotient(t, x, y))

Div(t, x, y) ==
  IF IsNaN(t, x) \/ IsNaN(t, y) THEN NaN(t)
  ELSE IF (IsInf(t, x) /\ IsInf(t, y)) \/ (IsZero(t, x) /\ IsZero(t, y)) THEN NaN(t)
  ELSE IF IsInf(t, x) \/ IsZero(t, y) THEN Inf(t, Xor(x.s, y.s))
  ELSE IF IsInf(t, y) THEN FZero(t, Xor(x.s, y.s))
  ELSE RoundExact(t, ExactQuotient(t, x, y))

(* PartialEq: NaN equals nothing, the two zeros are equal *)
Eq(t, x, y) ==
  /\ ~IsNaN(t, x)
  /\ ~IsNaN(t, y)
  /\ (x = y \/ (IsZero(t, x) /\ IsZero(t, y)))

(* a decimal literal sg * num/den of type t *)
Literal(t, sg, num, den) == Round(t, sg, num, den, 0)

(* ---------------- the contract's constants ----------------------------- *)
(* faulty variants: a wrong literal in one of the impls *)
FieldZeroIsOne(t) == Literal(t, 0, 1, 1)

FieldOneIsZero(t) == Literal(t, 0, 0, 1)

FieldZeroIsNegZero(t) == Literal(t, 1, 0, 1)

ZeroIsOne(t) == Literal(t, 0, 1, 1)

OneIsNegOne(t) == Literal(t, 1, 1, 1)

Field_zero(t) == Literal(t, 0, 0, 1)

Field_one(t) == Literal(t, 0, 1, 1)

Zero_zero(t) == Literal(t, 0, 0, 1)

One_one(t) == Literal(t, 0, 1, 1)

(* ---------------- invocations ------------------------------------------ *)
NullaryOps == {"Zero::zero", "One::one", "Field::zero", "Field::one"}

BinaryOps == {"add", "sub", "mul", "div"}

Ops == NullaryOps \cup {"neg"} \cup BinaryOps

Arity(o) == IF o \in NullaryOps THEN 0 ELSE IF o = "neg" THEN 1 ELSE 2

(* every invocation of the contract with arguments drawn from V *)
Calls(V) ==
  [op : NullaryOps, args : {<<>>}]
    \cup [op : {"neg"}, args : {<<x>> : x \in V}]
    \cup [op : BinaryOps, args : V \X V]

(* the value an invocation returns *)
Apply(t, o, as) ==
  CASE o = "Zero::zero"  -> Zero_zero(t)
    [] o = "One::one"    -> One_one(t)
    [] o = "Field::zero" -> Field_zero(t)
    [] o = "Field::one"  -> Field_one(t)
    [] o = "neg"         -> Neg(t, as[1])
    [] o = "add"         -> Add(t, as[1], as[2])
    [] o = "sub"         -> Sub(t, as[1], as[2])
    [] o = "mul"         -> Mul(t, as[1], as[2])
    [] o = "div"         -> Div(t, as[1], as[2])

Callers == 1..NumCallers

(* faulty variant: every caller's invocation kept in one shared slot *)
SharedFrame(p) == 1

(* the frame holding caller p's arguments: its own *)
FrameOf(p) == p

(* arguments the concurrent callers pass: 0.0 and 1.0 *)
ConcInputs(t) == {Literal(t, 0, 0, 1), Literal(t, 0, 1, 1)}

NoCall == [op |-> "none", args |-> <<>>]

ChainIdle == pool = {} /\ ncalls = 0

ConcIdle ==
  /\ cpc = [p \in Callers |-> "idle"]
  /\ frame = [p \in Callers |-> NoCall]
  /\ call = [p \in Callers |-> NoCall]
  /\ result = [p \in Callers |-> <<>>]

chainVars == <<pool, ncalls>>

concVars == <<cpc, frame, call, result>>

(* ---------------- Spec: one invocation on arbitrary arguments ---------- *)
(* The generic code (the tests' assert_* helpers) is handed values t of T  *)
(* and invokes one operation of the contract on them.                      *)
Init ==
  /\ ty \in Types
  /\ \E c \in Calls(Values(ty)) : op = c.op /\ args = c.args
  /\ ret = <<>>
  /\ pc = "call"
  /\ ChainIdle
  /\ ConcIdle

Return(v) ==
  /\ ret' = <<v>>
  /\ pc' = "ret"
  /\ UNCHANGED <<ty, op, args, chainVars, concVars>>

CallZeroZero == pc = "call" /\ op = "Zero::zero" /\ Return(Zero_zero(ty))

CallOneOne == pc = "call" /\ op = "One::one" /\ Return(One_one(ty))

CallFieldZero == pc = "call" /\ op = "Field::zero" /\ Return(Field_zero(ty))

CallFieldOne == pc = "call" /\ op = "Field::one" /\ Return(Field_one(ty))

CallNeg == pc = "call" /\ op = "neg" /\ Return(Neg(ty, args[1]))

CallAdd == pc = "call" /\ op = "add" /\ Return(Add(ty, args[1], args[2]))

CallSub == pc = "call" /\ op = "sub" /\ Return(Sub(ty, args[1], args[2]))

CallMul == pc = "call" /\ op = "mul" /\ Return(Mul(ty, args[1], args[2]))

CallDiv == pc = "call" /\ op = "div" /\ Return(Div(ty, args[1], args[2]))

Next ==
  \/ CallZeroZero
  \/ CallOneOne
  \/ CallFieldZero
  \/ CallFieldOne
  \/ CallNeg
  \/ CallAdd
  \/ CallSub
  \/ CallMul
  \/ CallDiv

Spec == Init /\ [][Next]_vars

(* ---------------- SpecChain: a caller chaining contract calls ---------- *)
(* Every argument is a value obtained earlier from the contract itself.    *)
HarnessIdle == pc = "call" /\ op = "none" /\ args = <<>> /\ ret = <<>>

InitChain ==
  /\ ty \in Types
  /\ HarnessIdle
  /\ ChainIdle
  /\ ConcIdle

ChainCall(o, as) ==
  /\ ncalls < MaxCalls
  /\ op' = o
  /\ args' = as
  /\ ret' = <<Apply(ty, o, as)>>
  /\ pool' = pool \cup {Apply(ty, o, as)}
  /\ ncalls' = ncalls + 1
  /\ pc' = "ret"
  /\ UNCHANGED <<ty, concVars>>

ChainZeroZero == ChainCall("Zero::zero", <<>>)

ChainOneOne == ChainCall("One::one", <<>>)

ChainFieldZero == ChainCall("Field::zero", <<>>)

ChainFieldOne == ChainCall("Field::one", <<>>)

ChainNeg == \E x \in pool : ChainCall("neg", <<x>>)

ChainAdd == \E x, y \in pool : ChainCall("add", <<x, y>>)

ChainSub == \E x, y \in pool : ChainCall("sub", <<x, y>>)

ChainMul == \E x, y \in pool : ChainCall("mul", <<x, y>>)

ChainDiv == \E x, y \in pool : ChainCall("div", <<x, y>>)

NextChain ==
  \/ ChainZeroZero
  \/ ChainOneOne
  \/ ChainFieldZero
  \/ ChainFieldOne
  \/ ChainNeg
  \/ ChainAdd
  \/ ChainSub
  \/ ChainMul
  \/ ChainDiv

SpecChain == InitChain /\ [][NextChain]_vars

(* ---------------- SpecConc: callers invoking concurrently -------------- *)
InitConc ==
  /\ ty \in Types
  /\ HarnessIdle
  /\ ChainIdle
  /\ ConcIdle

(* caller p invokes c: the arguments are moved into the call's frame *)
Invoke(p, c) ==
  /\ cpc[p] = "idle"
  /\ frame' = [frame EXCEPT ![FrameOf(p)] = c]
  /\ call' = [call EXCEPT ![p] = c]
  /\ cpc' = [cpc EXCEPT ![p] = "called"]
  /\ UNCHANGED <<ty, pc, op, args, ret, chainVars, result>>

(* the body runs on the frame's arguments, returns to caller p, and the   *)
(* frame is popped                                                         *)
Execute(p) ==
  /\ cpc[p] = "called"
  /\ result' = [result EXCEPT
                  ![p] = <<Apply(ty, frame[FrameOf(p)].op, frame[FrameOf(p)].args)>>]
  /\ frame' = [frame EXCEPT ![FrameOf(p)] = NoCall]
  /\ cpc' = [cpc EXCEPT ![p] = "returned"]
  /\ UNCHANGED <<ty, pc, op, args, ret, chainVars, call>>

(* caller p consumes the returned value and is ready to call again *)
Resume(p) ==
  /\ cpc[p] = "returned"
  /\ cpc' = [cpc EXCEPT ![p] = "idle"]
  /\ call' = [call EXCEPT ![p] = NoCall]
  /\ result' = [result EXCEPT ![p] = <<>>]
  /\ UNCHANGED <<ty, pc, op, args, ret, chainVars, frame>>

NextConc ==
  \/ \E p \in Callers : \E c \in Calls(ConcInputs(ty)) : Invoke(p, c)
  \/ \E p \in Callers : Execute(p)
  \/ \E p \in Callers : Resume(p)

SpecConc == InitConc /\ [][NextConc]_vars

(***************************************************************************)
(* Properties                                                              *)
(***************************************************************************)
Done(o) == pc = "ret" /\ op = o

Zeros(t) == {Zero_zero(t), Field_zero(t)}

Ones(t) == {One_one(t), Field_one(t)}

(* (r.num/r.den) * 2^r.ex compared with n * 2^e, for n > 0 *)
MagGE(r, n, e) ==
  /\ r.num > 0
  /\ LET lg1 == FloorLog2(r.num, r.den) + r.ex
         lg2 == FloorLog2(n, 1) + e
     IN  IF lg1 # lg2 THEN lg1 > lg2
         ELSE IF r.ex >= e THEN r.num * Pow2(r.ex - e) >= n * r.den
         ELSE r.num >= n * r.den * Pow2(e - r.ex)

MagGT(r, n, e) ==
  /\ r.num > 0
  /\ LET lg1 == FloorLog2(r.num, r.den) + r.ex
         lg2 == FloorLog2(n, 1) + e
     IN  IF lg1 # lg2 THEN lg1 > lg2
         ELSE IF r.ex >= e THEN r.num * Pow2(r.ex - e) > n * r.den
         ELSE r.num > n * r.den * Pow2(e - r.ex)

(* the exact result of a binary operation on finite operands *)
ExactOf(t, o, x, y) ==
  CASE o = "add" -> ExactSum(t, x, y)
    [] o = "sub" -> ExactSum(t, x, [y EXCEPT !.s = 1 - y.s])
    [] o = "mul" -> ExactProduct(t, x, y)
    [] o = "div" -> ExactQuotient(t, x, y)

(* the exact magnitude is above the largest finite value *)
ExceedsMaxFinite(t, r) ==
  MagGT(r, 2 * Hidden(t) - 1, Ex(t, MaxFinite(t, 0)))

(* the exact magnitude is at least the largest finite value plus half a   *)
(* unit in its last place: the result rounds beyond the finite range      *)
RoundsBeyondMaxFinite(t, r) ==
  MagGE(r, 4 * Hidden(t) - 1, Ex(t, MaxFinite(t, 0)) - 1)

(* a binary call whose operands are finite and whose exact result exists *)
FiniteBinaryCall ==
  /\ pc = "ret"
  /\ op \in BinaryOps
  /\ IsFinite(ty, args[1])
  /\ IsFinite(ty, args[2])
  /\ (op = "div" => ~IsZero(ty, args[2]))

(* ---- C1 ---- *)
(* C1 as claimed: for every non-NaN t, infinities included,               *)
(* t * zero() == zero() and zero() * t == zero().                         *)
C1_AnnihilationAllValues ==
  Done("mul") =>
    \A z \in Zeros(ty) :
      /\ (args[2] = z /\ ~IsNaN(ty, args[1]) => Eq(ty, ret[1], z))
      /\ (args[1] = z /\ ~IsNaN(ty, args[2]) => Eq(ty, ret[1], z))

(* C1 amended: for every finite t, t * zero() == zero() and               *)
(* zero() * t == zero(), for the zero() of Zero and of Field.             *)
C1_AnnihilationFinite ==
  Done("mul") =>
    \A z \in Zeros(ty) :
      /\ (args[2] = z /\ IsFinite(ty, args[1]) => Eq(ty, ret[1], z))
      /\ (args[1] = z /\ IsFinite(ty, args[2]) => Eq(ty, ret[1], z))

C1_Witness ==
  /\ Done("mul")
  /\ args[2] = Zero_zero(ty)
  /\ args[1] = MaxFinite(ty, 1)
  /\ ret[1] = FZero(ty, 1)

(* ---- C2 ---- *)
(* C2: for every non-NaN t, t + zero() == t and zero() + t == t under     *)
(* value equality.                                                        *)
C2_AdditiveIdentity ==
  Done("add") =>
    \A z \in Zeros(ty) :
      /\ (args[2] = z /\ ~IsNaN(ty, args[1]) => Eq(ty, ret[1], args[1]))
      /\ (args[1] = z /\ ~IsNaN(ty, args[2]) => Eq(ty, ret[1], args[2]))

(* -0.0 + zero() returned +0.0, which still equals -0.0 *)
C2_Witness ==
  /\ Done("add")
  /\ args[2] = Field_zero(ty)
  /\ args[1] = FZero(ty, 1)
  /\ ret[1] = FZero(ty, 0)

(* ---- C3 ---- *)
(* C3: for every non-NaN t, t - zero() == t and zero() - t == neg(t),     *)
(* also at t = zero().                                                    *)
C3_SubtractiveIdentity ==
  Done("sub") =>
    /\ (args[2] = Zero_zero(ty) /\ ~IsNaN(ty, args[1]) => Eq(ty, ret[1], args[1]))
    /\ (args[1] = Zero_zero(ty) /\ ~IsNaN(ty, args[2])
          => Eq(ty, ret[1], Neg(ty, args[2])))

(* zero() - zero() returned +0.0 and neg(zero()) is -0.0 *)
C3_Witness ==
  /\ Done("sub")
  /\ args[1] = Zero_zero(ty)
  /\ args[2] = Zero_zero(ty)
  /\ ret[1] = FZero(ty, 0)
  /\ Neg(ty, args[2]) = FZero(ty, 1)

(* ---- C4 ---- *)
(* C4: for every non-NaN t, t * one() == t, one() * t == t and            *)
(* t / one() == t.                                                        *)
C4_MultiplicativeIdentity ==
  \A o \in Ones(ty) :
    /\ Done("mul") =>
         /\ (args[2] = o /\ ~IsNaN(ty, args[1]) => Eq(ty, ret[1], args[1]))
         /\ (args[1] = o /\ ~IsNaN(ty, args[2]) => Eq(ty, ret[1], args[2]))
    /\ Done("div") =>
         (args[2] = o /\ ~IsNaN(ty, args[1]) => Eq(ty, ret[1], args[1]))

(* the smallest subnormal divided by one() *)
C4_Witness ==
  /\ Done("div")
  /\ args[2] = One_one(ty)
  /\ args[1] = [s |-> 0, e |-> 0, m |-> 1]
  /\ ret[1] = args[1]

(* ---- C5 ---- *)
(* C5: neg(zero()) is a zero with the sign bit opposite to zero()'s, and  *)
(* it compares equal to zero().                                           *)
C5_NegZero ==
  Done("neg") =>
    \A z \in Zeros(ty) :
      args[1] = z =>
        /\ IsZero(ty, ret[1])
        /\ ret[1].s = 1 - z.s
        /\ Eq(ty, ret[1], z)

C5_Witness == Done("neg") /\ args[1] = Zero_zero(ty) /\ ret[1].s = 1

(* ---- C7 ---- *)
(* every operation returns an ordinary value of T; div(a, zero()) is an   *)
(* infinity for non-zero a and NaN for a zero a                           *)
ReturnsValue == pc = "ret" => Len(ret) = 1 /\ ret[1] \in Values(ty)

DivByZeroPassedThrough ==
  Done("div") =>
    \A z \in Zeros(ty) :
      args[2] = z /\ ~IsNaN(ty, args[1]) =>
        IF IsZero(ty, args[1]) THEN IsNaN(ty, ret[1])
        ELSE ret[1] = Inf(ty, args[1].s)

(* C7 as claimed: no operation raises, wraps or clamps; div by zero() is  *)
(* infinity or NaN; an exact result above the largest finite value        *)
(* returns infinity.                                                      *)
C7_OverflowWheneverExactExceeds ==
  /\ ReturnsValue
  /\ DivByZeroPassedThrough
  /\ FiniteBinaryCall /\ ExceedsMaxFinite(ty, ExactOf(ty, op, args[1], args[2]))
       => IsInf(ty, ret[1])

(* C7 amended: as claimed, except that the result is infinity when the    *)
(* exact result is at least the largest finite value plus half an ulp,    *)
(* and the largest finite value when it exceeds it by less.               *)
C7_NoInterception ==
  /\ ReturnsValue
  /\ DivByZeroPassedThrough
  /\ FiniteBinaryCall =>
       LET r == ExactOf(ty, op, args[1], args[2])
       IN  /\ RoundsBeyondMaxFinite(ty, r) => ret[1] = Inf(ty, r.sg)
           /\ ExceedsMaxFinite(ty, r) /\ ~RoundsBeyondMaxFinite(ty, r)
                => ret[1] = MaxFinite(ty, r.sg)

C7_Witness ==
  /\ FiniteBinaryCall
  /\ op = "mul"
  /\ RoundsBeyondMaxFinite(ty, ExactOf(ty, op, args[1], args[2]))
  /\ ret[1] = Inf(ty, 1)

(* ---- C6 ---- *)
(* C6: under SpecChain, whatever was called before, zero() takes no       *)
(* input and returns the literal +0.0 and one() the literal 1.0 of the    *)
(* type's precision, and both can always be called.                       *)
C6_ConstantsArePure ==
  /\ pc = "ret" /\ op \in {"Zero::zero", "Field::zero"}
       => args = <<>> /\ ret = <<[s |-> 0, e |-> 0, m |-> 0]>>
  /\ pc = "ret" /\ op \in {"One::one", "Field::one"}
       => args = <<>> /\ ret = <<[s |-> 0, e |-> Bias(ty), m |-> 0]>>
  /\ ncalls < MaxCalls
       => /\ ENABLED ChainZeroZero
          /\ ENABLED ChainOneOne
          /\ ENABLED ChainFieldZero
          /\ ENABLED ChainFieldOne

(* zero() called after the contract has already produced NaN and infinity *)
C6_Witness ==
  /\ Done("Zero::zero")
  /\ ncalls >= 4
  /\ NaN(ty) \in pool
  /\ Inf(ty, 0) \in pool

(* ---- C8 ---- *)
(* the IEEE-754 invalid operations on non-NaN operands *)
InvalidOperation(t, o, as) ==
  CASE o = "add" -> IsInf(t, as[1]) /\ IsInf(t, as[2]) /\ as[1].s # as[2].s
    [] o = "sub" -> IsInf(t, as[1]) /\ IsInf(t, as[2]) /\ as[1].s = as[2].s
    [] o = "mul" -> \/ IsInf(t, as[1]) /\ IsZero(t, as[2])
                    \/ IsZero(t, as[1]) /\ IsInf(t, as[2])
    [] o = "div" -> \/ IsInf(t, as[1]) /\ IsInf(t, as[2])
                    \/ IsZero(t, as[1]) /\ IsZero(t, as[2])
    [] OTHER -> FALSE

HasNaNOperand(t, as) == \E i \in 1..Len(as) : IsNaN(t, as[i])

(* C8 as claimed: under SpecChain no operation applied to values obtained *)
(* from the contract yields NaN, and == is reflexive on every value       *)
(* produced.                                                              *)
C8_NeverProducesNaN ==
  /\ pc = "ret" => ~IsNaN(ty, ret[1])
  /\ \A v \in pool : Eq(ty, v, v)

(* C8 amended: zero() and one() never return NaN, and an operation        *)
(* returns NaN exactly when an operand is NaN or the operation is an      *)
(* IEEE-754 invalid one (0/0, inf/inf, 0*inf, inf-inf); == is reflexive   *)
(* on exactly the non-NaN values produced.                                *)
C8_NaNOnlyFromInvalid ==
  /\ pc = "ret" =>
       (IsNaN(ty, ret[1]) <=> HasNaNOperand(ty, args) \/ InvalidOperation(ty, op, args))
  /\ \A v \in pool : Eq(ty, v, v) <=> ~IsNaN(ty, v)

C8_Witness ==
  /\ Done("div")
  /\ args = <<Field_zero(ty), Zero_zero(ty)>>
  /\ IsNaN(ty, ret[1])
  /\ ~Eq(ty, ret[1], ret[1])

(* ---- C9 ---- *)
(* C9: under SpecConc, in every interleaving each invocation returns the  *)
(* value the same invocation returns when run alone, and leaves the other *)
(* callers' invocations untouched.                                        *)
C9_ConcurrencyIndependence ==
  \A p \in Callers :
    /\ cpc[p] = "returned"
         => result[p] = <<Apply(ty, call[p].op, call[p].args)>>
    /\ cpc[p] = "called" => frame[p] = call[p]

(* caller 1 has returned while caller 2's different call is in flight *)
C9_Witness ==
  /\ cpc[1] = "returned"
  /\ cpc[2] = "called"
  /\ call[1].op = "div"
  /\ call[2].op = "Zero::zero"
  /\ IsInf(ty, result[1][1])

(* ---- C10 ---- *)
(* C10: Field::zero() equals Zero::zero(), Field::one() equals            *)
(* One::one(), zero() != one(), and the subtraction laws hold with the    *)
(* Field constants.                                                       *)
C10_TraitsAgree ==
  /\ Field_zero(ty) = Zero_zero(ty)
  /\ Eq(ty, Field_zero(ty), Zero_zero(ty))
  /\ Field_one(ty) = One_one(ty)
  /\ Eq(ty, Field_one(ty), One_one(ty))
  /\ ~Eq(ty, Field_zero(ty), Field_one(ty))
  /\ ~Eq(ty, Zero_zero(ty), One_one(ty))
  /\ Done("Field::zero") => ret[1] = Zero_zero(ty)
  /\ Done("Field::one") => ret[1] = One_one(ty)
  /\ Done("sub") =>
       /\ (args[2] = Field_zero(ty) /\ ~IsNaN(ty, args[1])
             => Eq(ty, ret[1], args[1]))
       /\ (args[1] = Field_zero(ty) /\ ~IsNaN(ty, args[2])
             => Eq(ty, ret[1], Neg(ty, args[2])))

C10_Witness ==
  /\ Done("sub")
  /\ args[1] = Field_zero(ty)
  /\ args[2] = Inf(ty, 0)
  /\ ret[1] = Inf(ty, 1)
====
